---- MODULE Spec2Model ----
(***************************************************************************)
(* Model of Thermostat.py: the mode / appliance state machine              *)
(* (thermostat_decision_logic), the minimum-cycle gate (change_to), the    *)
(* delayed_start countdown, the periodic re-evaluation of the main loop    *)
(* and the input callbacks (touch button, A/B/C buttons, MQTT handlers).   *)
(*                                                                         *)
(* Temperatures read from the sensor are integers in tenths of a degree    *)
(* Celsius (the DHT22 resolution); the target is the slider's integer      *)
(* value in degrees.  The tolerances (0.5 C) are therefore 5 tenths.       *)
(* String values are the source's own strings; manual_command's initial    *)
(* integer 0 is written "0".                                               *)
(***************************************************************************)
EXTENDS Integers, Sequences, FiniteSets, TLC

THERMO_MIN_TARGET == 15

THERMO_MAX_TARGET == 25

THERMO_MIN_CYCLE == 5

\* 0.5 C, in tenths of a degree
THERMO_COLD_TOLERANCE == 5

\* 0.5 C, in tenths of a degree
THERMO_HEAT_TOLERANCE == 5

THERMO_UPDATE_FREQUENCY == 20

THERMO_MODES == <<"off", "auto", "man", "heat", "cool", "fan">>

\* THERMO_MODES[i] of the source (zero-based index)
Mode(i) == THERMO_MODES[i + 1]

\* [THERMO_MODES[index] for index in idx]
ModesAt(idx) == {Mode(i) : i \in idx}

\* THERMO_MODES.index(m)
ModeIndex(m) == CHOOSE i \in 0..5 : Mode(i) = m

RELAY_HEAT_TOPIC == "t-display-s3/heat"

RELAY_COOL_TOPIC == "t-display-s3/cool"

RELAY_FAN_TOPIC == "t-display-s3/fan"

TOPIC_ACTION == "action"

TOPIC_MODE_STATE == "mode/state"

TOPIC_STATE == "state"

TOPIC_SENSOR_STATE == "dht22/state"

RelayTopics == {RELAY_HEAT_TOPIC, RELAY_COOL_TOPIC, RELAY_FAN_TOPIC}

Actions == {"heating on", "heating off", "cooling on", "cooling off",
            "fan on", "fan off"}

(***************************************************************************)
(* Inputs of the environment, drawn from small sets.                       *)
(***************************************************************************)
\* sensor readings, tenths of a degree: around the thresholds of target 22
\* (21.4 cold | 21.7 below target | 22.1 above target | 22.5 hot); all of
\* them are hot for target 20
Temps == {214, 217, 221, 225}

\* payloads of the remote target command, tenths of a degree ("20.4", "21.5")
TargetPayloads == {204, 215}

\* values the user can drag the slider to
SliderValues == {20, 22}

\* payloads of the remote mode command: the modes of a Home Assistant
\* climate entity, of which "dry" is outside THERMO_MODES
ModePayloads == {"off", "auto", "heat", "cool", "fan_only", "dry"}

\* payloads of the heater / AC switch commands
SwitchPayloads == {"ON", "OFF"}

\* what the sensor gives the Telemetry Source: a temperature or a fault
Reading(t) == [status |-> "ok", temp |-> t]

SensorFault == [status |-> "fault", temp |-> 0]

\* the step did not go through the Telemetry Source
NoReading == [status |-> "none", temp |-> 0]

\* the channels the Connectivity Monitor watches: the network join and the
\* message-bus session
Channels == {"network", "mqtt"}

VARIABLES
    thermo_state,    \* mode
    manual_command,  \* pending manual command, "0" when none was ever given
    heating_state, cooling_state, fan_state,   \* 0 / 1
    delay,           \* cycle lock countdown
    change_ignored,  \* 1 when the last request was deferred
    actual_temp,     \* last sensor reading used, tenths
    target_temp,     \* target used by the last evaluation, degrees
    slider,          \* slider_target's value, degrees
    ticks,           \* main_loop tick counter
    delayed_start,   \* TRUE while the "delayed_start" timer runs
    blink_now,       \* TRUE while the "blink_now" timer runs
    out,             \* history: messages published by the last step, in order
    request,         \* history: the action the last step passed to change_to, or "none"
    gate,            \* history: "admitted" / "deferred" / "none" for the last step
    trigger,         \* history: what the last step was ("switch" for a remote heater or AC
                     \* command, "master_off", "command" for any other callback or button)
    lock_ticks,      \* history: delayed_start ticks since the last admitted change
    was_ignored,     \* history: change_ignored before the last step
    from_mode,       \* history: the mode a "switch" or "master_off" step found, "-" after other steps
    last_good,       \* Telemetry Source: the last good reading, {} when there is none
    sensor,          \* history: what the sensor gave the Telemetry Source in the last step
    failures,        \* Connectivity Monitor: consecutive-failure counter of each channel
    probes,          \* history: the last outcomes of each channel's health checks since the start
    publish_raises,  \* environment: TRUE while m5mqtt.publish raises (the broker is out of reach)
    latest,          \* history: the payload published last on each topic of its domain
                     \* ("none": nothing yet); the domain is empty where no record is kept
    min_cycle,       \* configuration: the value of THERMO_MIN_CYCLE the program runs with
    main_pc,         \* where the main loop's periodic evaluation stands: "idle", or the
                     \* request it has decided on and not yet passed to change_to
    manual_acted     \* history: "yes" once a request was admitted in mode man since the last
                     \* remote heater or AC command, "no" before; "unrecorded" where no
                     \* record is kept

vars == <<thermo_state, manual_command, heating_state, cooling_state, fan_state,
          delay, change_ignored, actual_temp, target_temp, slider, ticks,
          delayed_start, blink_now, out, request, gate, trigger, lock_ticks, was_ignored, from_mode,
          last_good, sensor, failures, probes, publish_raises, latest,
          min_cycle, main_pc, manual_acted>>

\* the globals as one record, with the per-step history fields cleared;
\* raised becomes TRUE when a statement of the handler raises, and what
\* follows it in the handler is then skipped
Cur == [thermo_state |-> thermo_state, manual_command |-> manual_command,
        heating_state |-> heating_state, cooling_state |-> cooling_state,
        fan_state |-> fan_state, delay |-> delay, change_ignored |-> change_ignored,
        actual_temp |-> actual_temp, target_temp |-> target_temp, slider |-> slider,
        ticks |-> ticks, delayed_start |-> delayed_start, blink_now |-> blink_now,
        out |-> <<>>, request |-> "none", gate |-> "none",
        last_good |-> last_good, sensor |-> NoReading,
        failures |-> failures, probes |-> probes,
        publish_raises |-> publish_raises, min_cycle |-> min_cycle,
        main_pc |-> main_pc, raised |-> FALSE]

(***************************************************************************)
(* m5mqtt.publish and the display.                                         *)
(***************************************************************************)
\* the topics whose messages the history variable out keeps: the relay
\* commands and the action notification
LoggedTopics == RelayTopics \cup {TOPIC_ACTION}

publish(s, topic, payload) ==
    IF s.raised THEN s
    ELSE IF s.publish_raises THEN [s EXCEPT !.raised = TRUE]
    ELSE IF topic \in LoggedTopics THEN [s EXCEPT !.out = Append(@, <<topic, payload>>)]
    ELSE s

\* timerSch.stop("blink_now")
stop_blink(s) == [s EXCEPT !.blink_now = FALSE]

\* update_display: of its effects only the blink_now timer is state.  Every
\* branch runs the timer when change_ignored == 1 and stops it otherwise,
\* except the "mode off and nothing ignored" branch, which leaves it alone.
update_display(s) ==
    IF s.thermo_state = Mode(0) /\ s.change_ignored = 0
    THEN s
    ELSE [s EXCEPT !.blink_now = (s.change_ignored = 1)]

(***************************************************************************)
(* change_to: the minimum-cycle gate.                                      *)
(***************************************************************************)
\* the message that switches a running appliance off, nothing for one that is off
OffIfOn(state, topic) == IF state = 1 THEN << <<topic, "OFF">> >> ELSE <<>>

\* mutant of HeatingOn: a running air conditioner is left on
HeatingOn_KeepsCooling(s) ==
    [s EXCEPT !.heating_state = 1, !.fan_state = 0,
              !.out = @ \o << <<RELAY_HEAT_TOPIC, "ON">>, <<TOPIC_ACTION, "heating">> >>
                        \o OffIfOn(s.fan_state, RELAY_FAN_TOPIC)]

\* the "heating on" branch: heater on, action "heating", then cooling and fan
\* off if they run
HeatingOn(s) ==
    [s EXCEPT !.heating_state = 1, !.cooling_state = 0, !.fan_state = 0,
              !.out = @ \o << <<RELAY_HEAT_TOPIC, "ON">>, <<TOPIC_ACTION, "heating">> >>
                        \o OffIfOn(s.cooling_state, RELAY_COOL_TOPIC)
                        \o OffIfOn(s.fan_state, RELAY_FAN_TOPIC)]

\* the "cooling on" branch
CoolingOn(s) ==
    [s EXCEPT !.cooling_state = 1, !.heating_state = 0, !.fan_state = 0,
              !.out = @ \o << <<RELAY_COOL_TOPIC, "ON">>, <<TOPIC_ACTION, "cooling">> >>
                        \o OffIfOn(s.heating_state, RELAY_HEAT_TOPIC)
                        \o OffIfOn(s.fan_state, RELAY_FAN_TOPIC)]

\* the "fan on" branch
FanOn(s) ==
    [s EXCEPT !.fan_state = 1, !.heating_state = 0, !.cooling_state = 0,
              !.out = @ \o << <<RELAY_FAN_TOPIC, "ON">>, <<TOPIC_ACTION, "fan">> >>
                        \o OffIfOn(s.heating_state, RELAY_HEAT_TOPIC)
                        \o OffIfOn(s.cooling_state, RELAY_COOL_TOPIC)]

\* mutant of HeatingOff: the relay is switched and no action is notified
HeatingOff_NoAction(s) ==
    [s EXCEPT !.heating_state = 0,
              !.out = @ \o << <<RELAY_HEAT_TOPIC, "OFF">> >>]

\* the "heating off" branch
HeatingOff(s) ==
    [s EXCEPT !.heating_state = 0,
              !.out = @ \o << <<RELAY_HEAT_TOPIC, "OFF">>, <<TOPIC_ACTION, "idle">> >>]

\* the "cooling off" branch
CoolingOff(s) ==
    [s EXCEPT !.cooling_state = 0,
              !.out = @ \o << <<RELAY_COOL_TOPIC, "OFF">>, <<TOPIC_ACTION, "idle">> >>]

\* the "fan off" branch
FanOff(s) ==
    [s EXCEPT !.fan_state = 0,
              !.out = @ \o << <<RELAY_FAN_TOPIC, "OFF">>, <<TOPIC_ACTION, "idle">> >>]

\* the if / elif chain over the action string
ApplyAction(s, action) ==
    CASE action = "heating on"  -> HeatingOn(s)
      [] action = "cooling on"  -> CoolingOn(s)
      [] action = "fan on"      -> FanOn(s)
      [] action = "heating off" -> HeatingOff(s)
      [] action = "cooling off" -> CoolingOff(s)
      [] action = "fan off"     -> FanOff(s)
      [] OTHER                  -> s

\* mutant of LockOpen: the countdown is not consulted
LockOpen_NoGate(s) == s.delay >= 0 \/ s.min_cycle = 0

\* the test that admits a request
LockOpen(s) == s.delay = 0 \/ s.min_cycle = 0

\* mutant of Admit: the deferred flag is not cleared
Admit_KeepsFlag(s, action) ==
    LET s1 == ApplyAction(s, action)
        s2 == [s1 EXCEPT !.delay = s.min_cycle, !.delayed_start = TRUE,
                         !.gate = "admitted"]
    IN  update_display(stop_blink(s2))

\* the admitted path: flag cleared, action applied, lock and timer restarted.
\* Every branch of the action chain begins with m5mqtt.publish: when that
\* raises, the flag is cleared and nothing else of change_to is executed.
Admit(s, action) ==
    LET s0 == [s EXCEPT !.change_ignored = 0]
        s1 == ApplyAction(s0, action)
        s2 == [s1 EXCEPT !.delay = s.min_cycle, !.delayed_start = TRUE,
                         !.gate = "admitted"]
    IN  IF s0.publish_raises THEN [s0 EXCEPT !.raised = TRUE]
        ELSE update_display(stop_blink(s2))

\* mutant of Defer: the flag is set but the action is applied all the same
Defer_Applies(s) ==
    update_display(ApplyAction([s EXCEPT !.change_ignored = 1, !.gate = "deferred"],
                               s.request))

\* the deferred path
Defer(s) == update_display([s EXCEPT !.change_ignored = 1, !.gate = "deferred"])

change_to(s, action) ==
    LET s0 == [s EXCEPT !.request = action]
    IN  IF LockOpen(s0) THEN Admit(s0, action) ELSE Defer(s0)

(***************************************************************************)
(* thermostat_decision_logic.                                              *)
(***************************************************************************)
\* mutant of ManualRequest: the pending command is passed on without looking
\* at the appliance it names
ManualRequest_NoStateTest(s) ==
    IF s.manual_command \in Actions THEN s.manual_command ELSE "none"

\* the manual branch: the pending command, when it changes the state
ManualRequest(s) ==
    CASE s.manual_command = "heating on"  /\ s.heating_state = 0 -> "heating on"
      [] s.manual_command = "heating off" /\ s.heating_state = 1 -> "heating off"
      [] s.manual_command = "cooling on"  /\ s.cooling_state = 0 -> "cooling on"
      [] s.manual_command = "cooling off" /\ s.cooling_state = 1 -> "cooling off"
      [] s.manual_command = "fan on"      /\ s.fan_state = 0     -> "fan on"
      [] s.manual_command = "fan off"     /\ s.fan_state = 1     -> "fan off"
      [] OTHER -> "none"

\* actual_temp <= target_temp - THERMO_COLD_TOLERANCE
TooCold(s) == s.actual_temp <= s.target_temp * 10 - THERMO_COLD_TOLERANCE

\* mutant of TooHot: > for >=
TooHot_Strict(s) == s.actual_temp > s.target_temp * 10 + THERMO_HEAT_TOLERANCE

\* actual_temp >= target_temp + THERMO_HEAT_TOLERANCE
TooHot(s) == s.actual_temp >= s.target_temp * 10 + THERMO_HEAT_TOLERANCE

\* mutant of AtOrAboveTarget: the heater goes off at the edge of the
\* tolerance band, not at the target
AtOrAboveTarget_Band(s) == s.actual_temp >= s.target_temp * 10 - THERMO_COLD_TOLERANCE

\* actual_temp >= target_temp
AtOrAboveTarget(s) == s.actual_temp >= s.target_temp * 10

\* mutant of AtOrBelowTarget: cooling and fan go off at the edge of the
\* tolerance band, not at the target
AtOrBelowTarget_Band(s) == s.actual_temp <= s.target_temp * 10 - THERMO_COLD_TOLERANCE

\* actual_temp <= target_temp
AtOrBelowTarget(s) == s.actual_temp <= s.target_temp * 10

\* mutant of HeatOnModes: mode off (index 0) slipped into the list
HeatOnModes_WithOff == ModesAt({0, 1, 3})

\* the mode lists of the six conditions
HeatOnModes == ModesAt({1, 3})

\* mutant of CoolOnModes: mode heat (index 3) slipped into the list
CoolOnModes_WithHeat == ModesAt({1, 3, 4})

CoolOnModes == ModesAt({1, 4})

FanOnModes == ModesAt({5})

\* mutant of HeatOffModes: mode off is missing from the list
HeatOffModes_NoOff == ModesAt({4, 5})

HeatOffModes == ModesAt({0, 4, 5})

\* mutant of CoolOffModes: mode heat (index 3) is missing from the list
CoolOffModes_NoHeat == ModesAt({0, 5})

CoolOffModes == ModesAt({0, 3, 5})

FanOffModes == ModesAt({0, 3, 4})

\* mutant of AutoRequest: the three "off" conditions are tested before the
\* three "on" conditions
AutoRequest_OffFirst(s) ==
    IF (AtOrAboveTarget(s) \/ s.thermo_state \in HeatOffModes)
            /\ s.heating_state = 1
    THEN "heating off"
    ELSE IF (AtOrBelowTarget(s) \/ s.thermo_state \in CoolOffModes)
            /\ s.cooling_state = 1
    THEN "cooling off"
    ELSE IF (AtOrBelowTarget(s) \/ s.thermo_state \in FanOffModes)
            /\ s.fan_state = 1
    THEN "fan off"
    ELSE IF TooCold(s) /\ s.heating_state = 0 /\ s.thermo_state \in HeatOnModes
    THEN "heating on"
    ELSE IF TooHot(s) /\ s.cooling_state = 0 /\ s.thermo_state \in CoolOnModes
    THEN "cooling on"
    ELSE IF TooHot(s) /\ s.fan_state = 0 /\ s.thermo_state \in FanOnModes
    THEN "fan on"
    ELSE "none"

\* the temperature-driven if / elif chain, first match wins
AutoRequest(s) ==
    IF TooCold(s) /\ s.heating_state = 0 /\ s.thermo_state \in HeatOnModes
    THEN "heating on"
    ELSE IF TooHot(s) /\ s.cooling_state = 0 /\ s.thermo_state \in CoolOnModes
    THEN "cooling on"
    ELSE IF TooHot(s) /\ s.fan_state = 0 /\ s.thermo_state \in FanOnModes
    THEN "fan on"
    ELSE IF (AtOrAboveTarget(s) \/ s.thermo_state \in HeatOffModes)
            /\ s.heating_state = 1
    THEN "heating off"
    ELSE IF (AtOrBelowTarget(s) \/ s.thermo_state \in CoolOffModes)
            /\ s.cooling_state = 1
    THEN "cooling off"
    ELSE IF (AtOrBelowTarget(s) \/ s.thermo_state \in FanOffModes)
            /\ s.fan_state = 1
    THEN "fan off"
    ELSE "none"

\* the action the decision logic passes to change_to, "none" for the else branches
Decide(s) == IF s.thermo_state = Mode(2) THEN ManualRequest(s) ELSE AutoRequest(s)

\* the else branches: timerSch.stop("blink_now"); update_display()
NoAction(s) == update_display(stop_blink(s))

\* t is what dht22.temperature() returns
thermostat_decision_logic(s, t) ==
    LET s1 == [s EXCEPT !.actual_temp = t, !.target_temp = s.slider]
        a  == Decide(s1)
    IN  IF s.raised THEN s
        ELSE IF a = "none" THEN NoAction(s1) ELSE change_to(s1, a)

\* update_mqtt_state_topics; t is the sensor reading
update_mqtt_state_topics(s, t) ==
    LET s1 == publish(s, TOPIC_SENSOR_STATE, t)
        s2 == publish(s1, TOPIC_STATE, s1.target_temp)
    IN  publish(s2, TOPIC_MODE_STATE, s2.thermo_state)

(***************************************************************************)
(* Input conversions.                                                      *)
(***************************************************************************)
\* round(float(topic_data)) for a payload given in tenths: Python rounds
\* halves to the even integer
Round(x) ==
    LET q == x \div 10
        r == x % 10
    IN  IF r < 5 THEN q
        ELSE IF r > 5 THEN q + 1
        ELSE IF q % 2 = 0 THEN q ELSE q + 1

\* mutant of SetSlider: the value is stored as given
SetSlider_NoClamp(s, v) == [s EXCEPT !.slider = v]

\* slider_target.set_value(v) on a slider of range
\* [THERMO_MIN_TARGET, THERMO_MAX_TARGET]: the value is clamped to the range
SetSlider(s, v) ==
    [s EXCEPT !.slider = IF v < THERMO_MIN_TARGET THEN THERMO_MIN_TARGET
                         ELSE IF v > THERMO_MAX_TARGET THEN THERMO_MAX_TARGET
                         ELSE v]

\* no topic's last payload is recorded
NoRecord == [k \in {} |-> "none"]

\* the payload of the last message of msgs on topic k, old when there is none
LatestOn(k, msgs, old) ==
    LET idx == {i \in DOMAIN msgs : msgs[i][1] = k}
    IN  IF idx = {} THEN old
        ELSE msgs[CHOOSE i \in idx : \A j \in idx : j <= i][2]

\* the record f of last payloads after the messages msgs, in their order
Replay(f, msgs) == [k \in DOMAIN f |-> LatestOn(k, msgs, f[k])]

(***************************************************************************)
(* State after the start-up sequence: thermostat_init, comms_init (whose   *)
(* mqtt_initialization publishes idle / OFF / OFF) and the first           *)
(* evaluation, which finds mode off and nothing to do.                     *)
(***************************************************************************)
InitGlobals ==
    /\ thermo_state = Mode(0)
    /\ manual_command = "0"
    /\ heating_state = 0 /\ cooling_state = 0 /\ fan_state = 0
    /\ delay = 0
    /\ change_ignored = 0
    /\ slider = 20
    /\ target_temp = 20
    /\ ticks = 0
    /\ delayed_start = FALSE
    /\ blink_now = FALSE
    /\ out = << <<TOPIC_ACTION, "idle">>, <<RELAY_HEAT_TOPIC, "OFF">>,
                <<RELAY_COOL_TOPIC, "OFF">> >>
    /\ request = "none"
    /\ gate = "none"
    /\ trigger = "init"
    /\ lock_ticks = -1
    /\ was_ignored = 0
    /\ from_mode = "-"
    /\ sensor = NoReading
    /\ failures = [c \in Channels |-> 0]
    /\ probes = [c \in Channels |-> <<>>]
    /\ publish_raises = FALSE
    /\ main_pc = "idle"

\* Thermostat.py reads the sensor directly: it has no Telemetry Source and
\* keeps no last good reading
Init ==
    /\ InitGlobals
    /\ actual_temp \in Temps
    /\ last_good = {}
    /\ latest = NoRecord
    /\ manual_acted = "unrecorded"
    /\ min_cycle = THERMO_MIN_CYCLE

\* manual_acted after a step: a remote heater or AC command is a new manual
\* command, an admitted request in mode man is the pending command acting
ManualActed(s, trig) ==
    IF manual_acted = "unrecorded" THEN manual_acted
    ELSE IF s.gate = "admitted" /\ s.thermo_state = Mode(2) THEN "yes"
    ELSE IF trig = "switch" THEN "no"
    ELSE manual_acted

\* the record s becomes the next state; trig names the step
Assign(s, trig) ==
    /\ thermo_state' = s.thermo_state
    /\ manual_command' = s.manual_command
    /\ heating_state' = s.heating_state
    /\ cooling_state' = s.cooling_state
    /\ fan_state' = s.fan_state
    /\ delay' = s.delay
    /\ change_ignored' = s.change_ignored
    /\ actual_temp' = s.actual_temp
    /\ target_temp' = s.target_temp
    /\ slider' = s.slider
    /\ ticks' = s.ticks
    /\ delayed_start' = s.delayed_start
    /\ blink_now' = s.blink_now
    /\ out' = s.out
    /\ request' = s.request
    /\ gate' = s.gate
    /\ trigger' = (IF s.raised THEN "exception" ELSE trig)
    /\ was_ignored' = change_ignored
    /\ last_good' = s.last_good
    /\ failures' = s.failures
    /\ probes' = s.probes
    /\ publish_raises' = s.publish_raises
    /\ sensor' = s.sensor
    /\ latest' = Replay(latest, s.out)
    /\ manual_acted' = ManualActed(s, trig)
    /\ min_cycle' = s.min_cycle
    /\ main_pc' = s.main_pc
    /\ from_mode' = (IF trig \in {"switch", "master_off"} THEN thermo_state ELSE "-")
    /\ lock_ticks' = IF trig = "restart" THEN -1
                     ELSE IF s.gate = "admitted" THEN 0
                     ELSE IF trig \in {"lock_tick", "lock_expiry"} THEN lock_ticks + 1
                     ELSE lock_ticks

\* the step's result becomes the next state (the result is computed once)
Commit(result, trig) == \E s \in {result} : Assign(s, trig)

(***************************************************************************)
(* Callbacks.  t is the sensor reading of the evaluation they run.         *)
(***************************************************************************)
\* touch button: next mode in THERMO_MODES.  With a mode outside
\* THERMO_MODES index() raises and the callback ends there.
change_mode(t) ==
    IF thermo_state \in ModesAt(0..5)
    THEN LET s1 == [Cur EXCEPT !.thermo_state = Mode((ModeIndex(thermo_state) + 1) % 6)]
             s2 == publish(s1, TOPIC_MODE_STATE, s1.thermo_state)
         IN  Commit(thermostat_decision_logic(s2, t), "command")
    ELSE Commit(Cur, "exception")

\* the user drags the slider to v
slider_target_changed(v, t) ==
    LET s1 == SetSlider(Cur, v)
        s2 == publish(s1, TOPIC_STATE, s1.slider)
    IN  Commit(thermostat_decision_logic(s2, t), "command")

rcv_target_temp(topic_data, t) ==
    Commit(thermostat_decision_logic(SetSlider(Cur, Round(topic_data)), t),
           "command")

rcv_thermo_state(topic_data, t) ==
    LET s1 == [Cur EXCEPT !.thermo_state =
                   IF topic_data # "fan_only" THEN topic_data ELSE "fan"]
        s2 == publish(s1, TOPIC_MODE_STATE, s1.thermo_state)
    IN  Commit(thermostat_decision_logic(s2, t), "command")

\* mutant of rcv_heater_status: the mode is left as it is
rcv_heater_status_KeepsMode(topic_data, t) ==
    LET s1 == [Cur EXCEPT !.manual_command = IF topic_data = "ON" THEN "heating on"
                                             ELSE "heating off"]
    IN  Commit(thermostat_decision_logic(s1, t), "switch")

rcv_heater_status(topic_data, t) ==
    LET s1 == [Cur EXCEPT !.thermo_state = Mode(2),
                          !.manual_command = IF topic_data = "ON" THEN "heating on"
                                             ELSE "heating off"]
    IN  Commit(thermostat_decision_logic(s1, t), "switch")

rcv_ac_status(topic_data, t) ==
    LET s1 == [Cur EXCEPT !.thermo_state = Mode(2),
                          !.manual_command = IF topic_data = "ON" THEN "cooling on"
                                             ELSE "cooling off"]
    IN  Commit(thermostat_decision_logic(s1, t), "switch")

\* mutant of rcv_master_off: the mode is set and nothing is evaluated
rcv_master_off_NoEval(t) ==
    Commit([Cur EXCEPT !.thermo_state = Mode(0), !.actual_temp = t], "master_off")

rcv_master_off(t) ==
    Commit(thermostat_decision_logic([Cur EXCEPT !.thermo_state = Mode(0)], t),
           "master_off")

\* mqtt_registration's four config messages, the four availability notices,
\* then an evaluation
rcv_discovery(t) ==
    LET s1 == publish(publish(publish(publish(Cur,
                  "sensor/config", "temp"), "climate/config", "thermostat"),
                  "switch/heater/config", "heater"), "switch/ac/config", "ac")
        s2 == publish(publish(publish(publish(s1,
                  "dht22/status", "on"), "thermostat/status", "on"),
                  "heater/status", "on"), "ac/status", "on")
    IN  Commit(thermostat_decision_logic(s2, t), "command")

(***************************************************************************)
(* Main loop: the A / B / C buttons, honoured in manual mode only, and the *)
(* periodic re-evaluation.                                                 *)
(***************************************************************************)
btnA(t) ==
    /\ thermo_state = Mode(2)
    /\ Commit(thermostat_decision_logic(
                 [Cur EXCEPT !.manual_command = IF heating_state = 0 THEN "heating on"
                                                ELSE "heating off"], t), "command")

btnB(t) ==
    /\ thermo_state = Mode(2)
    /\ Commit(thermostat_decision_logic(
                 [Cur EXCEPT !.manual_command = IF cooling_state = 0 THEN "cooling on"
                                                ELSE "cooling off"], t), "command")

btnC(t) ==
    /\ thermo_state = Mode(2)
    /\ Commit(thermostat_decision_logic(
                 [Cur EXCEPT !.manual_command = IF fan_state = 0 THEN "fan on"
                                                ELSE "fan off"], t), "command")

\* if ticks == THERMO_UPDATE_FREQUENCY: evaluate, publish the state, ticks = 0
main_loop_periodic(t) ==
    /\ ticks = THERMO_UPDATE_FREQUENCY
    /\ LET s1 == thermostat_decision_logic(Cur, t)
           s2 == update_mqtt_state_topics(s1, t)
       IN  Commit(IF s2.raised THEN s2 ELSE [s2 EXCEPT !.ticks = 0], "periodic")

(***************************************************************************)
(* Timers.                                                                 *)
(***************************************************************************)
\* mutant of tdelayed_start: at 0 the timer stops and nothing is re-evaluated
tdelayed_start_NoEval(t) ==
    /\ delayed_start
    /\ LET s1 == [Cur EXCEPT !.delay = @ - 1]
       IN  IF s1.delay = 0
           THEN Commit([s1 EXCEPT !.delayed_start = FALSE, !.actual_temp = t],
                       "lock_expiry")
           ELSE Commit(s1, "lock_tick")

\* one firing of the delayed_start timer
tdelayed_start(t) ==
    /\ delayed_start
    /\ LET s1 == [Cur EXCEPT !.delay = @ - 1]
       IN  IF s1.delay = 0
           THEN Commit(thermostat_decision_logic(
                           [s1 EXCEPT !.delayed_start = FALSE], t), "lock_expiry")
           ELSE Commit(s1, "lock_tick")

\* The main_loop timer adds 1 to ticks on each firing and nothing else reads
\* or writes ticks but the main loop's periodic test, so where the main loop
\* polls between any two firings the firings between two periodic
\* evaluations are taken as one step: THERMO_UPDATE_FREQUENCY firings of
\* tmain_loop.
tmain_loop_period ==
    /\ ticks = 0
    /\ Commit([Cur EXCEPT !.ticks = @ + THERMO_UPDATE_FREQUENCY], "main_loop_timer")

Next ==
    \/ \E t \in Temps : change_mode(t)
    \/ \E v \in SliderValues, t \in Temps : slider_target_changed(v, t)
    \/ \E d \in TargetPayloads, t \in Temps : rcv_target_temp(d, t)
    \/ \E d \in ModePayloads, t \in Temps : rcv_thermo_state(d, t)
    \/ \E d \in SwitchPayloads, t \in Temps : rcv_heater_status(d, t)
    \/ \E d \in SwitchPayloads, t \in Temps : rcv_ac_status(d, t)
    \/ \E t \in Temps : rcv_master_off(t)
    \/ \E t \in Temps : rcv_discovery(t)
    \/ \E t \in Temps : btnA(t)
    \/ \E t \in Temps : btnB(t)
    \/ \E t \in Temps : btnC(t)
    \/ \E t \in Temps : main_loop_periodic(t)
    \/ \E t \in Temps : tdelayed_start(t)
    \/ tmain_loop_period

Spec == Init /\ [][Next]_vars

(***************************************************************************)
(* The same program under a smaller environment, for the properties that   *)
(* say something happens eventually: two sensor readings (21.4 and 22.1,   *)
(* cold and warm for target 22, both hot for the initial target 20), the   *)
(* touch button, the remote mode, target, heater and master-off commands,  *)
(* button C, the countdown and the periodic re-evaluation.  The            *)
(* delayed_start timer fires every second while it runs, hence the         *)
(* fairness condition.                                                     *)
(***************************************************************************)
LiveTemps == {214, 221}

LiveTargetPayloads == {215}

LiveModePayloads == {"off", "auto", "heat", "cool", "fan_only"}

LiveInit == Init /\ actual_temp \in LiveTemps

LiveNext ==
    \/ \E t \in LiveTemps : change_mode(t)
    \/ \E d \in LiveModePayloads, t \in LiveTemps : rcv_thermo_state(d, t)
    \/ \E d \in SwitchPayloads, t \in LiveTemps : rcv_heater_status(d, t)
    \/ \E t \in LiveTemps : btnC(t)
    \/ \E d \in LiveTargetPayloads, t \in LiveTemps : rcv_target_temp(d, t)
    \/ \E t \in LiveTemps : rcv_master_off(t)
    \/ \E t \in LiveTemps : main_loop_periodic(t)
    \/ \E t \in LiveTemps : tdelayed_start(t)
    \/ tmain_loop_period

LiveSpec == LiveInit /\ [][LiveNext]_vars
                /\ WF_vars(\E t \in LiveTemps : tdelayed_start(t))

(***************************************************************************)
(* The same program under an environment whose remote target commands      *)
(* range beyond the slider's bounds: 10.0 and 14.5 below, 25.5 and 30.0    *)
(* above, 20.4 and 21.5 inside.  The local slider cannot be dragged out of *)
(* its range.                                                              *)
(***************************************************************************)
WideTargetPayloads == {100, 145, 204, 215, 255, 300}

TargetTemps == {214, 225}

TargetModePayloads == {"off", "auto"}

TargetInit == Init /\ actual_temp \in TargetTemps

TargetNext ==
    \/ \E d \in WideTargetPayloads, t \in TargetTemps : rcv_target_temp(d, t)
    \/ \E v \in SliderValues, t \in TargetTemps : slider_target_changed(v, t)
    \/ \E d \in TargetModePayloads, t \in TargetTemps : rcv_thermo_state(d, t)
    \/ \E t \in TargetTemps : tdelayed_start(t)

TargetSpec == TargetInit /\ [][TargetNext]_vars

(***************************************************************************)
(* The Telemetry Source of the specification (section 4.4): read() never   *)
(* fails outward.  A good reading is kept as the last good one and         *)
(* returned; on a fault the last good reading is returned, the fixed       *)
(* default when there is none.  The handlers below are main_loop_periodic, *)
(* rcv_thermo_state and tdelayed_start with the sensor read through it.    *)
(***************************************************************************)
\* the fixed default, 20.0 C
SENSOR_DEFAULT_TEMP == 200

\* mutant of TelemetryValue: a fault gives the default even when a good
\* reading is kept
TelemetryValue_DefaultOnly(s, r) ==
    IF r.status = "ok" THEN r.temp ELSE SENSOR_DEFAULT_TEMP

\* the temperature read() returns for what the sensor gives
TelemetryValue(s, r) ==
    IF r.status = "ok" THEN r.temp
    ELSE IF s.last_good = {} THEN SENSOR_DEFAULT_TEMP
    ELSE CHOOSE t \in s.last_good : TRUE

\* the state read() leaves: a good reading becomes the last good one
TelemetryRead(s, r) ==
    IF r.status = "ok" THEN [s EXCEPT !.last_good = {r.temp}, !.sensor = r]
    ELSE [s EXCEPT !.sensor = r]

\* an evaluation whose reading comes from read()
telemetry_decision_logic(s, r) ==
    thermostat_decision_logic(TelemetryRead(s, r), TelemetryValue(s, r))

telemetry_periodic(r) ==
    /\ ticks = THERMO_UPDATE_FREQUENCY
    /\ LET s1 == telemetry_decision_logic(Cur, r)
           s2 == update_mqtt_state_topics(s1, s1.actual_temp)
       IN  Commit(IF s2.raised THEN s2 ELSE [s2 EXCEPT !.ticks = 0], "periodic")

telemetry_thermo_state(topic_data, r) ==
    LET s1 == [Cur EXCEPT !.thermo_state =
                   IF topic_data # "fan_only" THEN topic_data ELSE "fan"]
        s2 == publish(s1, TOPIC_MODE_STATE, s1.thermo_state)
    IN  Commit(telemetry_decision_logic(s2, r), "command")

telemetry_delayed_start(r) ==
    /\ delayed_start
    /\ LET s1 == [Cur EXCEPT !.delay = @ - 1]
       IN  IF s1.delay = 0
           THEN Commit(telemetry_decision_logic(
                           [s1 EXCEPT !.delayed_start = FALSE], r), "lock_expiry")
           ELSE Commit(s1, "lock_tick")

SensorTemps == {200, 214}

SensorReadings == {SensorFault} \cup {Reading(t) : t \in SensorTemps}

SensorModePayloads == {"off", "auto", "cool"}

\* the first read of a session gave a temperature, or a fault
SensorInit ==
    /\ InitGlobals
    /\ \/ actual_temp \in SensorTemps /\ last_good = {actual_temp}
       \/ actual_temp = SENSOR_DEFAULT_TEMP /\ last_good = {}
    /\ latest = NoRecord
    /\ manual_acted = "unrecorded"
    /\ min_cycle = THERMO_MIN_CYCLE

SensorNext ==
    \/ \E r \in SensorReadings : telemetry_periodic(r)
    \/ \E d \in SensorModePayloads, r \in SensorReadings : telemetry_thermo_state(d, r)
    \/ \E r \in SensorReadings : telemetry_delayed_start(r)
    \/ tmain_loop_period

SensorSpec == SensorInit /\ [][SensorNext]_vars

(***************************************************************************)
(* The Connectivity Monitor of the specification (section 4.3).            *)
(* checkHealth probes a channel; when the probe fails it attempts one      *)
(* reconnect.  A success resets the channel's failure counter; a failure   *)
(* increments it, and when it reaches MAX_FAILURES the device restarts     *)
(* and comes up as after the start-up sequence.                            *)
(***************************************************************************)
MAX_FAILURES == 3

\* the outcome log of a channel with one more outcome, the last MAX_FAILURES kept
Logged(q, outcome) ==
    LET q1 == Append(q, outcome)
    IN  IF Len(q1) > MAX_FAILURES THEN Tail(q1) ELSE q1

\* the state after a full device restart; t is the first sensor reading
restart(s, t) ==
    [s EXCEPT !.thermo_state = Mode(0), !.manual_command = "0",
              !.heating_state = 0, !.cooling_state = 0, !.fan_state = 0,
              !.delay = 0, !.change_ignored = 0, !.actual_temp = t,
              !.slider = 20, !.target_temp = 20, !.ticks = 0,
              !.delayed_start = FALSE, !.blink_now = FALSE,
              !.out = << <<TOPIC_ACTION, "idle">>, <<RELAY_HEAT_TOPIC, "OFF">>,
                         <<RELAY_COOL_TOPIC, "OFF">> >>,
              !.last_good = {},
              !.failures = [c \in Channels |-> 0],
              !.probes = [c \in Channels |-> <<>>]]

\* mutant of checkHealth: a success leaves the counter as it is
checkHealth_NoReset(channel, probe_ok, reconnect_ok, t) ==
    IF probe_ok \/ reconnect_ok
    THEN Commit([Cur EXCEPT !.probes[channel] = Logged(@, "ok")], "healthy")
    ELSE IF failures[channel] + 1 >= MAX_FAILURES
    THEN Commit(restart(Cur, t), "restart")
    ELSE Commit([Cur EXCEPT !.failures[channel] = @ + 1,
                            !.probes[channel] = Logged(@, "failed")], "degraded")

\* one health check of a channel: probe_ok and reconnect_ok are the outcomes
\* of the probe and of the reconnect attempted when the probe fails
checkHealth(channel, probe_ok, reconnect_ok, t) ==
    IF probe_ok \/ reconnect_ok
    THEN Commit([Cur EXCEPT !.failures[channel] = 0,
                            !.probes[channel] = Logged(@, "ok")], "healthy")
    ELSE IF failures[channel] + 1 >= MAX_FAILURES
    THEN Commit(restart(Cur, t), "restart")
    ELSE Commit([Cur EXCEPT !.failures[channel] = @ + 1,
                            !.probes[channel] = Logged(@, "failed")], "degraded")

ConnTemps == {214}

ConnModePayloads == {"off", "auto"}

ConnInit == Init /\ actual_temp \in ConnTemps

ConnNext ==
    \/ \E c \in Channels, p \in BOOLEAN, r \in BOOLEAN, t \in ConnTemps :
          checkHealth(c, p, r, t)
    \/ \E d \in ConnModePayloads, t \in ConnTemps : rcv_thermo_state(d, t)
    \/ \E t \in ConnTemps : tdelayed_start(t)

ConnSpec == ConnInit /\ [][ConnNext]_vars

(***************************************************************************)
(* The same program under a broker that comes and goes: while              *)
(* publish_raises holds, m5mqtt.publish raises and the handler that called *)
(* it ends there.  The steps are the MQTT callbacks and the countdown; an  *)
(* exception in the main loop would end the loop itself.                   *)
(***************************************************************************)
NetTemps == {214}

NetModePayloads == {"off", "auto", "cool"}

\* the broker becomes unreachable, or reachable again
link_change == Commit([Cur EXCEPT !.publish_raises = ~@], "link")

NetInit == Init /\ actual_temp \in NetTemps

NetNext ==
    \/ link_change
    \/ \E d \in NetModePayloads, t \in NetTemps : rcv_thermo_state(d, t)
    \/ \E d \in SwitchPayloads, t \in NetTemps : rcv_heater_status(d, t)
    \/ \E t \in NetTemps : rcv_master_off(t)
    \/ \E t \in NetTemps : tdelayed_start(t)

NetSpec == NetInit /\ [][NetNext]_vars

(***************************************************************************)
(* The same program with the last payload of every relay topic and of the  *)
(* action topic recorded, from the three messages of mqtt_initialization   *)
(* on (the fan relay gets none of them).                                   *)
(***************************************************************************)
RelayTemps == {214, 225}

RelayModePayloads == {"off", "auto", "heat", "cool", "fan_only"}

RelayInit ==
    /\ InitGlobals
    /\ actual_temp \in RelayTemps
    /\ last_good = {}
    /\ latest = Replay([k \in LoggedTopics |-> "none"], out)
    /\ manual_acted = "unrecorded"
    /\ min_cycle = THERMO_MIN_CYCLE

RelayNext ==
    \/ \E t \in RelayTemps : change_mode(t)
    \/ \E d \in RelayModePayloads, t \in RelayTemps : rcv_thermo_state(d, t)
    \/ \E d \in SwitchPayloads, t \in RelayTemps : rcv_heater_status(d, t)
    \/ \E d \in SwitchPayloads, t \in RelayTemps : rcv_ac_status(d, t)
    \/ \E t \in RelayTemps : rcv_master_off(t)
    \/ \E t \in RelayTemps : btnC(t)
    \/ \E t \in RelayTemps : main_loop_periodic(t)
    \/ \E t \in RelayTemps : tdelayed_start(t)
    \/ tmain_loop_period

RelaySpec == RelayInit /\ [][RelayNext]_vars

(***************************************************************************)
(* The same program with a record of whether the pending manual command    *)
(* has acted.  The manual commands are the remote heater and AC commands;  *)
(* the mode is changed by the touch button and by the remote mode command. *)
(***************************************************************************)
ManualTemps == {214, 225}

ManualModePayloads == {"off", "auto"}

ManualInit ==
    /\ InitGlobals
    /\ actual_temp \in ManualTemps
    /\ last_good = {}
    /\ latest = NoRecord
    /\ manual_acted = "no"
    /\ min_cycle = THERMO_MIN_CYCLE

ManualNext ==
    \/ \E t \in ManualTemps : change_mode(t)
    \/ \E d \in ManualModePayloads, t \in ManualTemps : rcv_thermo_state(d, t)
    \/ \E d \in SwitchPayloads, t \in ManualTemps : rcv_heater_status(d, t)
    \/ \E d \in SwitchPayloads, t \in ManualTemps : rcv_ac_status(d, t)
    \/ \E t \in ManualTemps : tdelayed_start(t)

ManualSpec == ManualInit /\ [][ManualNext]_vars

(***************************************************************************)
(* The same program configured with other values of THERMO_MIN_CYCLE, 0    *)
(* (no minimum cycle) among them.  The countdown is followed as far as     *)
(* CycleDelays reaches.                                                    *)
(***************************************************************************)
CycleConfigs == {0, 1, 2}

CycleDelays == -3..2

CycleTemps == {214, 225}

CycleModePayloads == {"off", "auto", "heat"}

CycleInit ==
    /\ InitGlobals
    /\ actual_temp \in CycleTemps
    /\ last_good = {}
    /\ latest = NoRecord
    /\ manual_acted = "unrecorded"
    /\ min_cycle \in CycleConfigs

\* a firing of the delayed_start timer, within CycleDelays
cycle_delayed_start(t) == delay - 1 \in CycleDelays /\ tdelayed_start(t)

CycleNext ==
    \/ \E d \in CycleModePayloads, t \in CycleTemps : rcv_thermo_state(d, t)
    \/ \E d \in SwitchPayloads, t \in CycleTemps : rcv_heater_status(d, t)
    \/ \E t \in CycleTemps : rcv_master_off(t)
    \/ \E t \in CycleTemps : main_loop_periodic(t)
    \/ \E t \in CycleTemps : cycle_delayed_start(t)
    \/ tmain_loop_period

CycleSpec == CycleInit /\ [][CycleNext]_vars

(***************************************************************************)
(* The same program with the main_loop timer firing by itself: each firing *)
(* of tmain_loop adds 1 to ticks, whatever the main loop is doing, and the *)
(* main loop tests ticks when it comes round to it.  The timer is followed *)
(* as far as TickValues reaches.  The timer fires every 999 ms and the     *)
(* loop runs for ever, hence the fairness conditions.                      *)
(***************************************************************************)
TickValues == 0..22

TickTemps == {214, 225}

TickModePayloads == {"off", "auto"}

\* one firing of the main_loop timer
tmain_loop ==
    /\ ticks + 1 \in TickValues
    /\ Commit([Cur EXCEPT !.ticks = @ + 1], "main_loop_timer")

TickInit == Init /\ actual_temp \in TickTemps

TickNext ==
    \/ tmain_loop
    \/ \E t \in TickTemps : main_loop_periodic(t)
    \/ \E d \in TickModePayloads, t \in TickTemps : rcv_thermo_state(d, t)
    \/ \E t \in TickTemps : tdelayed_start(t)

TickSpec == TickInit /\ [][TickNext]_vars
                /\ WF_vars(tmain_loop)
                /\ WF_vars(\E t \in TickTemps : main_loop_periodic(t))

(***************************************************************************)
(* The same program with the callbacks running while the main loop is      *)
(* inside its periodic evaluation.  The MQTT callbacks, the touch-button   *)
(* callback and the timer events assign the globals and call               *)
(* thermostat_decision_logic themselves, and nothing in Thermostat.py      *)
(* (no lock, no queue, no flag) keeps them from running between two        *)
(* statements of the main loop.  The main loop's evaluation is taken in    *)
(* two steps, up to the choice of the request and from the call of         *)
(* change_to on, and the callbacks may run in between.                     *)
(***************************************************************************)
RaceTemps == {214, 225}

RaceModePayloads == {"off", "auto"}

\* the main loop's periodic branch up to the choice of the request
main_loop_decide(t) ==
    /\ ticks = THERMO_UPDATE_FREQUENCY
    /\ main_pc = "idle"
    /\ LET s1 == [Cur EXCEPT !.actual_temp = t, !.target_temp = slider]
       IN  Commit([s1 EXCEPT !.main_pc = Decide(s1)], "deciding")

\* the rest of the periodic branch: the call of change_to (or the else
\* branch), the state publication and ticks = 0
main_loop_act ==
    /\ main_pc # "idle"
    /\ LET s1 == IF main_pc = "none" THEN NoAction(Cur) ELSE change_to(Cur, main_pc)
           s2 == update_mqtt_state_topics(s1, s1.actual_temp)
       IN  Commit(IF s2.raised THEN [s2 EXCEPT !.main_pc = "idle"]
                  ELSE [s2 EXCEPT !.ticks = 0, !.main_pc = "idle"], "periodic")

RaceInit == Init /\ actual_temp \in RaceTemps

RaceNext ==
    \/ \E t \in RaceTemps : main_loop_decide(t)
    \/ main_loop_act
    \/ \E t \in RaceTemps : change_mode(t)
    \/ \E d \in RaceModePayloads, t \in RaceTemps : rcv_thermo_state(d, t)
    \/ \E d \in SwitchPayloads, t \in RaceTemps : rcv_heater_status(d, t)
    \/ \E t \in RaceTemps : rcv_master_off(t)
    \/ \E t \in RaceTemps : tdelayed_start(t)
    \/ tmain_loop_period

RaceSpec == RaceInit /\ [][RaceNext]_vars

(***************************************************************************)
(* Properties.                                                             *)
(***************************************************************************)
\* the last step ran thermostat_decision_logic
Evaluated == trigger \in {"command", "switch", "master_off", "periodic", "lock_expiry"}

\* some appliance state differs between the two states of a step
Flip == <<heating_state, cooling_state, fan_state>>' #
        <<heating_state, cooling_state, fan_state>>

\* the last step published payload on topic
Published(topic, payload) == \E i \in DOMAIN out : out[i] = <<topic, payload>>

\* C1: in every reachable state at most one of heating_state, cooling_state
\* and fan_state is 1.
C1_MutualExclusion == heating_state + cooling_state + fan_state <= 1

\* an admitted "heating on" that replaced a running air conditioner
C1_Witness ==
    /\ gate = "admitted" /\ request = "heating on"
    /\ Published(RELAY_COOL_TOPIC, "OFF")
    /\ heating_state = 1 /\ cooling_state = 0

\* C2: after an admitted appliance change, no appliance state flips again
\* before THERMO_MIN_CYCLE ticks of the delayed_start countdown have elapsed
\* (lock_ticks counts them, the tick of the step itself included; -1: no
\* change was admitted yet).
C2_MinimumCycleTime ==
    [][Flip => \/ lock_ticks = -1
               \/ lock_ticks + (IF trigger' = "lock_expiry" THEN 1 ELSE 0)
                     >= THERMO_MIN_CYCLE]_vars

\* a second change, admitted by the tick that ended the countdown, after a
\* request had been turned away meanwhile
C2_Witness ==
    /\ trigger = "lock_expiry" /\ gate = "admitted" /\ was_ignored = 1
    /\ lock_ticks = 0

\* the appliance states change_to computes for a request r in the current state
C3_Deferred(r) == change_to(Cur, r)

\* C3: change_to called while the lock is non-zero sets change_ignored to 1
\* and leaves heating_state, cooling_state, fan_state, the lock, the mode and
\* the target as they are, publishing no relay command and no action
\* notification: for every request in every reachable state, and in every
\* step that deferred one.
C3_DeferralLeavesState ==
    /\ [](\A r \in Actions :
            (delay > 0 /\ THERMO_MIN_CYCLE > 0) =>
                /\ C3_Deferred(r).change_ignored = 1
                /\ C3_Deferred(r).heating_state = heating_state
                /\ C3_Deferred(r).cooling_state = cooling_state
                /\ C3_Deferred(r).fan_state = fan_state
                /\ C3_Deferred(r).delay = delay
                /\ C3_Deferred(r).thermo_state = thermo_state
                /\ C3_Deferred(r).target_temp = target_temp
                /\ C3_Deferred(r).out = <<>>)
    /\ [][gate' = "deferred" =>
            /\ change_ignored' = 1
            /\ ~Flip
            /\ delay' = delay /\ delay > 0
            /\ out' = <<>>]_vars

\* a "cooling on" turned away while the heater runs and the lock counts
C3_Witness ==
    /\ gate = "deferred" /\ request = "cooling on"
    /\ heating_state = 1 /\ cooling_state = 0 /\ delay > 0 /\ change_ignored = 1

\* the appliance states an admitted request must produce from the current ones
C4_Expected(r) ==
    CASE r = "heating on"  -> <<1, 0, 0>>
      [] r = "cooling on"  -> <<0, 1, 0>>
      [] r = "fan on"      -> <<0, 0, 1>>
      [] r = "heating off" -> <<0, cooling_state, fan_state>>
      [] r = "cooling off" -> <<heating_state, 0, fan_state>>
      [] r = "fan off"     -> <<heating_state, cooling_state, 0>>

\* the action notification that goes with a request
C4_ActionOf(r) ==
    CASE r = "heating on" -> "heating"
      [] r = "cooling on" -> "cooling"
      [] r = "fan on"     -> "fan"
      [] OTHER            -> "idle"

\* C4: a request made with the lock at 0 is admitted: the flip is applied,
\* with the other two appliances off for an "on" request, the lock is reset
\* to THERMO_MIN_CYCLE, change_ignored is cleared and exactly one action
\* notification is published, the one of the request.
C4_AdmissionEffects ==
    [][(request' # "none" /\ (delay = 0 \/ trigger' = "lock_expiry")) =>
          /\ gate' = "admitted"
          /\ <<heating_state', cooling_state', fan_state'>> = C4_Expected(request')
          /\ delay' = THERMO_MIN_CYCLE
          /\ change_ignored' = 0
          /\ Cardinality({i \in DOMAIN out' : out'[i][1] = TOPIC_ACTION}) = 1
          /\ \E i \in DOMAIN out' : out'[i] = <<TOPIC_ACTION, C4_ActionOf(request')>>]_vars

\* an admitted "cooling on" that replaced the running heater, after a
\* request had been deferred
C4_Witness ==
    /\ gate = "admitted" /\ request = "cooling on" /\ was_ignored = 1
    /\ Published(RELAY_HEAT_TOPIC, "OFF") /\ Published(TOPIC_ACTION, "cooling")
    /\ cooling_state = 1 /\ heating_state = 0 /\ delay = THERMO_MIN_CYCLE

\* what the decision logic is given by the tick that ends the countdown: the
\* state before the tick with the reading and target of the re-evaluation
C5_AtExpiry == [Cur EXCEPT !.delay = 0, !.actual_temp = actual_temp',
                           !.target_temp = slider]

\* C5: a deferred request is retried by the countdown itself.  The tick that
\* takes the lock from 1 to 0 re-evaluates the decision logic with no other
\* input, and the request that mode, temperature, target and manual command
\* then warrant is admitted in that same step; and once a request has been
\* deferred the countdown does reach 0.
C5_DeferredIsRetried ==
    /\ [][(delay = 1 /\ delay' # 1) =>
            /\ trigger' = "lock_expiry"
            /\ request' = Decide(C5_AtExpiry)
            /\ (Decide(C5_AtExpiry) # "none" =>
                   /\ gate' = "admitted"
                   /\ <<heating_state', cooling_state', fan_state'>>
                          = C4_Expected(Decide(C5_AtExpiry)))
            /\ (Decide(C5_AtExpiry) = "none" => ~Flip)]_vars
    /\ (gate = "deferred" ~> trigger = "lock_expiry")

\* manual mode: the "fan on" command, deferred earlier, is admitted by the
\* tick that ends the countdown
C5_Witness ==
    /\ trigger = "lock_expiry" /\ gate = "admitted" /\ was_ignored = 1
    /\ thermo_state = "man" /\ manual_command = "fan on" /\ request = "fan on"
    /\ fan_state = 1

\* the number of appliances that are on
C6_Active == heating_state + cooling_state + fan_state

\* C6: in mode off no appliance is turned on; every flip is one admitted
\* "off" request after which all three are off; an appliance still on in mode
\* off is there only because its "off" request is deferred behind a running
\* countdown; and while the mode stays off all three do end up off.
C6_OffShutsDown ==
    /\ [][thermo_state' = "off" =>
            /\ heating_state' <= heating_state
            /\ cooling_state' <= cooling_state
            /\ fan_state' <= fan_state]_vars
    /\ [][(thermo_state' = "off" /\ Flip) =>
            /\ gate' = "admitted"
            /\ request' \in {"heating off", "cooling off", "fan off"}
            /\ C6_Active' = 0]_vars
    /\ []((thermo_state = "off" /\ C6_Active > 0) =>
            (change_ignored = 1 /\ delayed_start /\ delay > 0))
    /\ ((thermo_state = "off" /\ C6_Active > 0)
            ~> (C6_Active = 0 \/ thermo_state # "off"))

\* mode off, target 22: the heater's "off", deferred earlier, is admitted by
\* the tick that ends the countdown although the room is cold
C6_Witness ==
    /\ thermo_state = "off" /\ trigger = "lock_expiry" /\ was_ignored = 1
    /\ gate = "admitted" /\ request = "heating off"
    /\ actual_temp = 214 /\ target_temp = 22
    /\ C6_Active = 0

\* C7: hysteresis in mode auto.  The heater goes on only in an evaluation
\* with actual_temp <= target - THERMO_COLD_TOLERANCE; once on, it stays on
\* through every step in which the mode is and remains auto and the reading
\* is below the target, and goes off only in an evaluation whose reading is
\* at or above the target.
C7_Hysteresis ==
    /\ [][(thermo_state = "auto" /\ thermo_state' = "auto"
            /\ heating_state = 0 /\ heating_state' = 1) =>
              (Evaluated' /\ actual_temp' <= target_temp' * 10 - THERMO_COLD_TOLERANCE)]_vars
    /\ [][(thermo_state = "auto" /\ thermo_state' = "auto" /\ heating_state = 1
            /\ actual_temp' < target_temp' * 10) => heating_state' = 1]_vars
    /\ [][(thermo_state = "auto" /\ thermo_state' = "auto"
            /\ heating_state = 1 /\ heating_state' = 0) =>
              (Evaluated' /\ actual_temp' >= target_temp' * 10)]_vars

\* mode auto, target 22, heater on, lock open: an evaluation at 21.7, inside
\* the tolerance band, asks for nothing
C7_Witness ==
    /\ thermo_state = "auto" /\ heating_state = 1 /\ target_temp = 22
    /\ actual_temp = 217 /\ Evaluated /\ request = "none" /\ delay = 0

\* actual_temp <= target - THERMO_COLD_TOLERANCE, for the reading and target
\* of the step's evaluation
C8_Cold == actual_temp' <= target_temp' * 10 - THERMO_COLD_TOLERANCE

\* actual_temp >= target + THERMO_HEAT_TOLERANCE, likewise
C8_Hot == actual_temp' >= target_temp' * 10 + THERMO_HEAT_TOLERANCE

\* C8: an evaluation in mode auto requests "heating on" exactly when the
\* heater is off and the reading is at or below target - THERMO_COLD_TOLERANCE,
\* and "cooling on" exactly when that does not hold, cooling is off and the
\* reading is at or above target + THERMO_HEAT_TOLERANCE; with the heater on
\* and the reading at or above the target the request is one that switches
\* the heater off, with cooling on and the reading at or below the target
\* one that switches cooling off (and does so when the lock admits it).
C8_AutoThresholds ==
    [][(Evaluated' /\ thermo_state' = "auto") =>
          /\ (request' = "heating on") <=> (heating_state = 0 /\ C8_Cold)
          /\ (request' = "cooling on") <=>
                (~(heating_state = 0 /\ C8_Cold) /\ cooling_state = 0 /\ C8_Hot)
          /\ (heating_state = 1 /\ actual_temp' >= target_temp' * 10) =>
                /\ request' \in {"heating off", "cooling on"}
                /\ gate' = "admitted" => heating_state' = 0
          /\ (cooling_state = 1 /\ actual_temp' <= target_temp' * 10) =>
                /\ request' \in {"cooling off", "heating on"}
                /\ gate' = "admitted" => cooling_state' = 0]_vars

\* mode auto, target 22: the reading 22.5, exactly target + tolerance, gets
\* "cooling on" admitted
C8_Witness ==
    /\ thermo_state = "auto" /\ Evaluated /\ target_temp = 22 /\ actual_temp = 225
    /\ request = "cooling on" /\ gate = "admitted" /\ cooling_state = 1

\* C9: an evaluation in mode heat never requests "cooling on" or "fan on",
\* one in mode cool never "heating on" or "fan on", one in mode fan never
\* "heating on" or "cooling on".
C9_ModeRestrictsRequests ==
    /\ thermo_state = "heat" => request \notin {"cooling on", "fan on"}
    /\ thermo_state = "cool" => request \notin {"heating on", "fan on"}
    /\ thermo_state = "fan"  => request \notin {"heating on", "cooling on"}

\* mode heat, target 20, reading 22.5: the room is hot, the lock is open, and
\* the evaluation asks for nothing
C9_Witness ==
    /\ thermo_state = "heat" /\ Evaluated /\ target_temp = 20 /\ actual_temp = 225
    /\ C6_Active = 0 /\ delay = 0 /\ request = "none"

\* the mode is heat, cool or fan and an appliance of another mode is on
C10_ForeignOn ==
    \/ thermo_state = "heat" /\ cooling_state + fan_state > 0
    \/ thermo_state = "cool" /\ heating_state + fan_state > 0
    \/ thermo_state = "fan" /\ heating_state + cooling_state > 0

\* C10: in mode heat, cool or fan an appliance of another mode that is on is
\* there only behind a running countdown with its switch-off deferred, the
\* tick that ends the countdown in that mode switches it off whatever the
\* reading, and so it does go off (or the mode is left).  In mode heat with target 22 an
\* evaluation at 21.4 with the heater off requests "heating on", admitted
\* with action "heating"; one at 22.1 with the heater on requests
\* "heating off", admitted with action "idle"; a deferred one is retried by
\* the countdown.
C10_ForeignApplianceShutDown ==
    /\ [](C10_ForeignOn => (change_ignored = 1 /\ delayed_start /\ delay > 0))
    /\ [][(C10_ForeignOn /\ thermo_state' = thermo_state /\ delay = 1 /\ delay' # 1)
            => ~C10_ForeignOn']_vars
    /\ (C10_ForeignOn ~> ~C10_ForeignOn)
    /\ [][(Evaluated' /\ thermo_state' = "heat" /\ target_temp' = 22
            /\ actual_temp' = 214 /\ heating_state = 0) =>
              /\ request' = "heating on"
              /\ gate' = "admitted" =>
                    (heating_state' = 1 /\ Published(TOPIC_ACTION, "heating")')]_vars
    /\ [][(Evaluated' /\ thermo_state' = "heat" /\ target_temp' = 22
            /\ actual_temp' = 221 /\ heating_state = 1) =>
              /\ request' = "heating off"
              /\ gate' = "admitted" =>
                    (C6_Active' = 0 /\ Published(TOPIC_ACTION, "idle")')]_vars
    /\ ((thermo_state = "heat" /\ target_temp = 22 /\ gate = "deferred")
            ~> (trigger = "lock_expiry" \/ thermo_state # "heat"))

\* mode heat, target 22: the heater, on since 21.4, is switched off at 22.1
\* by the tick that ends the countdown, the request having been deferred
C10_Witness ==
    /\ thermo_state = "heat" /\ target_temp = 22 /\ actual_temp = 221
    /\ trigger = "lock_expiry" /\ was_ignored = 1
    /\ request = "heating off" /\ gate = "admitted"
    /\ heating_state = 0 /\ Published(TOPIC_ACTION, "idle")

\* mode heat, target 20, hot room: the running air conditioner's "off",
\* deferred earlier, is admitted by the tick that ends the countdown
C10_ForeignWitness ==
    /\ thermo_state = "heat" /\ target_temp = 20
    /\ trigger = "lock_expiry" /\ was_ignored = 1
    /\ request = "cooling off" /\ gate = "admitted" /\ cooling_state = 0

\* C11: an evaluation in mode fan requests "fan on" exactly when the fan is
\* off and the reading is at or above target + THERMO_HEAT_TOLERANCE, the
\* comparison that triggers cooling; with the fan on and the reading at or
\* below the target it requests "fan off" (carried out when the lock admits
\* it).
C11_FanThreshold ==
    [][(Evaluated' /\ thermo_state' = "fan") =>
          /\ (request' = "fan on") <=> (fan_state = 0 /\ C8_Hot)
          /\ (fan_state = 1 /\ actual_temp' <= target_temp' * 10) =>
                /\ request' = "fan off"
                /\ gate' = "admitted" => fan_state' = 0]_vars

\* mode fan, target 22: the running fan is switched off at 21.7, below the
\* target
C11_Witness ==
    /\ thermo_state = "fan" /\ Evaluated /\ target_temp = 22 /\ actual_temp = 217
    /\ request = "fan off" /\ gate = "admitted" /\ fan_state = 0

\* the effect of the manual command cmd already holds in the current state
C12_EffectHolds(cmd) ==
    \/ cmd = "heating on"  /\ heating_state = 1
    \/ cmd = "heating off" /\ heating_state = 0
    \/ cmd = "cooling on"  /\ cooling_state = 1
    \/ cmd = "cooling off" /\ cooling_state = 0
    \/ cmd = "fan on"      /\ fan_state = 1
    \/ cmd = "fan off"     /\ fan_state = 0

\* C12: in mode man an evaluation whose manual command already has its
\* effect (a command repeated after it was admitted included) makes no
\* request: no appliance flips, no relay command and no action notification
\* is published, the lock is not reset (it only counts down) and
\* change_ignored is left as it is.
C12_ManualIdempotence ==
    [][(Evaluated' /\ thermo_state' = "man" /\ C12_EffectHolds(manual_command')) =>
          /\ request' = "none" /\ gate' = "none"
          /\ ~Flip
          /\ out' = <<>>
          /\ delay' = (IF trigger' = "lock_expiry" THEN 0 ELSE delay)
          /\ change_ignored' = change_ignored]_vars

\* mode man: "heating on" arrives again while the heater it switched on runs
\* and the lock counts
C12_Witness ==
    /\ trigger = "command" /\ thermo_state = "man" /\ manual_command = "heating on"
    /\ heating_state = 1 /\ request = "none" /\ out = <<>>
    /\ delay > 0 /\ delay < THERMO_MIN_CYCLE /\ change_ignored = 0

\* C13: a remote heater or AC command, whatever the mode it arrives in, ends
\* in mode man with that command pending, and its evaluation follows the
\* manual rules alone: the request is the command when its effect does not
\* hold yet and none otherwise, whatever the reading; the request is admitted
\* with the lock at 0 and deferred behind a running lock.
C13_SwitchImpliesManual ==
    [][trigger' = "switch" =>
          /\ thermo_state' = "man"
          /\ manual_command' \in {"heating on", "heating off", "cooling on", "cooling off"}
          /\ request' = (IF C12_EffectHolds(manual_command') THEN "none"
                         ELSE manual_command')
          /\ (request' # "none" /\ delay = 0) =>
                /\ gate' = "admitted"
                /\ <<heating_state', cooling_state', fan_state'>> = C4_Expected(request')
          /\ (request' # "none" /\ delay > 0) => (gate' = "deferred" /\ ~Flip)]_vars

\* mode auto, target 22, reading 21.4: the room is cold, and the AC command
\* that arrives is admitted all the same, the mode now man
C13_Witness ==
    /\ trigger = "switch" /\ from_mode = "auto" /\ thermo_state = "man"
    /\ manual_command = "cooling on" /\ request = "cooling on" /\ gate = "admitted"
    /\ actual_temp = 214 /\ target_temp = 22 /\ cooling_state = 1

\* the "off" request that goes with the appliance that is on, "none" when
\* none is
C14_OffRequest ==
    IF heating_state = 1 THEN "heating off"
    ELSE IF cooling_state = 1 THEN "cooling off"
    ELSE IF fan_state = 1 THEN "fan off"
    ELSE "none"

\* C14: a master-off signal, whatever the mode and the appliance states it
\* arrives in, ends in mode off, and the evaluation it runs requests the
\* "off" of the appliance that is on: admitted with the lock at 0, after
\* which all three are off, deferred behind a running lock.
C14_MasterOff ==
    [][trigger' = "master_off" =>
          /\ thermo_state' = "off"
          /\ request' = C14_OffRequest
          /\ (request' # "none" /\ delay = 0) => (gate' = "admitted" /\ C6_Active' = 0)
          /\ (request' # "none" /\ delay > 0) => (gate' = "deferred" /\ ~Flip)]_vars

\* mode heat, target 22, reading 21.4: the heater, rightly on, is switched
\* off by the master-off signal
C14_Witness ==
    /\ trigger = "master_off" /\ from_mode = "heat" /\ thermo_state = "off"
    /\ actual_temp = 214 /\ target_temp = 22
    /\ request = "heating off" /\ gate = "admitted" /\ C6_Active = 0

\* the master-off signal arrives in mode man while the fan runs behind a
\* counting lock: its "off" is deferred
C14_DeferredWitness ==
    /\ trigger = "master_off" /\ from_mode = "man" /\ thermo_state = "off"
    /\ request = "fan off" /\ gate = "deferred" /\ fan_state = 1

\* C15: in every reachable state the mode is one of the six of THERMO_MODES
\* (an unknown token of a remote mode command is ignored, "fan_only" is
\* taken as "fan").
C15_ModeAlwaysValid == thermo_state \in ModesAt(0..5)

\* v limited to [THERMO_MIN_TARGET, THERMO_MAX_TARGET]
C16_Clamp(v) ==
    IF v < THERMO_MIN_TARGET THEN THERMO_MIN_TARGET
    ELSE IF v > THERMO_MAX_TARGET THEN THERMO_MAX_TARGET
    ELSE v

\* n is the whole number of degrees nearest to d tenths, the even one of the
\* two when d lies half-way
C16_Nearest(d, n) ==
    /\ n * 10 - d <= 5 /\ d - n * 10 <= 5
    /\ (n * 10 - d = 5 \/ d - n * 10 = 5) => n % 2 = 0

\* the step is the remote target command with payload d
C16_Remote(d) == \E t \in TargetTemps : rcv_target_temp(d, t)

\* the step is the slider dragged to v
C16_Local(v) == \E t \in TargetTemps : slider_target_changed(v, t)

\* the slider and the target used by the decision logic are within bounds
C16_InBounds ==
    /\ slider \in THERMO_MIN_TARGET..THERMO_MAX_TARGET
    /\ target_temp \in THERMO_MIN_TARGET..THERMO_MAX_TARGET

\* C16, as amended: in every reachable state the target used by the decision
\* logic lies in [THERMO_MIN_TARGET, THERMO_MAX_TARGET]; a remote target
\* command is rounded to the nearest whole degree (a half to the even
\* degree) and a value outside the range is then clamped to the nearest
\* bound; the result is the target of the evaluation the command runs.  A
\* value the slider is dragged to becomes the target as it is.
C16_TargetWithinBounds ==
    /\ []C16_InBounds
    /\ [][\A d \in WideTargetPayloads : C16_Remote(d) =>
            \E n \in 0..40 : C16_Nearest(d, n) /\ target_temp' = C16_Clamp(n)]_vars
    /\ [][\A v \in SliderValues : C16_Local(v) => target_temp' = v]_vars

\* C16 as stated: a remote command inside the range becomes the target, one
\* outside it the nearest bound.
C16_CommandBecomesTarget ==
    /\ []C16_InBounds
    /\ [][\A v \in SliderValues : C16_Local(v) => target_temp' = v]_vars
    /\ [][\A d \in WideTargetPayloads : C16_Remote(d) =>
            target_temp' * 10 =
                (IF d < THERMO_MIN_TARGET * 10 THEN THERMO_MIN_TARGET * 10
                 ELSE IF d > THERMO_MAX_TARGET * 10 THEN THERMO_MAX_TARGET * 10
                 ELSE d)]_vars

\* mode auto: a remote command above the range (no slider value reaches the
\* bound) made THERMO_MAX_TARGET the target, and the room, at 22.5, is cold
\* for it
C16_Witness ==
    /\ target_temp = THERMO_MAX_TARGET /\ slider = THERMO_MAX_TARGET
    /\ thermo_state = "auto" /\ trigger = "command" /\ actual_temp = 225
    /\ request = "heating on" /\ gate = "admitted"

\* C17: right after the start the mode is off, heater, cooling and fan are
\* off, change_ignored is 0, the lock is 0 and the target is 20; as long as
\* no change was admitted since the start (lock_ticks = -1) nothing is on and
\* nothing is deferred, whatever was evaluated meanwhile; and the first
\* change admitted is an "on" in a step that ends in a mode other than off:
\* a mode that was selected, or man with a manual "on" command pending.
C17_SafeStart ==
    /\ [](trigger = "init" =>
            /\ thermo_state = "off" /\ C6_Active = 0
            /\ change_ignored = 0 /\ delay = 0
            /\ target_temp = 20 /\ slider = 20)
    /\ [](lock_ticks = -1 =>
            (C6_Active = 0 /\ change_ignored = 0 /\ delay = 0 /\ ~delayed_start))
    /\ [][(lock_ticks = -1 /\ lock_ticks' # -1) =>
            /\ thermo_state' # "off"
            /\ request' \in {"heating on", "cooling on", "fan on"}
            /\ thermo_state' = "man" => manual_command' = request']_vars

\* the periodic evaluation finds mode off in a room at 21.4 with the target
\* set to 22, no change admitted since the start: nothing is requested
C17_Witness ==
    /\ trigger = "periodic" /\ lock_ticks = -1 /\ thermo_state = "off"
    /\ manual_command = "0" /\ target_temp = 22 /\ actual_temp = 214
    /\ request = "none" /\ C6_Active = 0

\* what read() has to return on a fault: the last good reading, the default
\* when there is none
C18_Fallback ==
    IF last_good = {} THEN SENSOR_DEFAULT_TEMP ELSE CHOOSE t \in last_good : TRUE

\* C18: read() never fails outward.  A good reading reaches the decision
\* logic and becomes the last good one; on a fault the decision logic gets
\* the last good reading, the default when there is none, which is the
\* temperature it had before, and the last good reading is kept; a fault
\* stops no evaluation (the periodic one runs on a fault whenever it is
\* due), and a periodic evaluation on a fault with the lock at 0 requests
\* nothing and flips nothing.
C18_SensorFallback ==
    /\ [][sensor'.status = "ok" =>
            (actual_temp' = sensor'.temp /\ last_good' = {sensor'.temp})]_vars
    /\ [][sensor'.status = "fault" =>
            /\ actual_temp' = C18_Fallback
            /\ actual_temp' = actual_temp
            /\ last_good' = last_good]_vars
    /\ [](ticks = THERMO_UPDATE_FREQUENCY => ENABLED telemetry_periodic(SensorFault))
    /\ [][(sensor'.status = "fault" /\ trigger' = "periodic" /\ delay = 0) =>
            (request' = "none" /\ ~Flip)]_vars

\* mode auto, target 20: the air conditioner went on at 21.4; the sensor
\* then faults, the periodic evaluation gets 21.4 again and leaves it on
C18_Witness ==
    /\ sensor = SensorFault /\ last_good = {214} /\ actual_temp = 214
    /\ trigger = "periodic" /\ thermo_state = "auto" /\ target_temp = 20
    /\ cooling_state = 1 /\ request = "none"

\* no good reading since the start: the evaluation on a fault gets the default
C18_DefaultWitness ==
    /\ sensor = SensorFault /\ last_good = {} /\ actual_temp = SENSOR_DEFAULT_TEMP
    /\ trigger = "periodic"

\* the number of failed checks at the end of an outcome log: the consecutive
\* failures of the channel
C19_Consecutive(q) ==
    IF Len(q) = 0 \/ q[Len(q)] = "ok" THEN 0
    ELSE IF Len(q) = 1 \/ q[Len(q) - 1] = "ok" THEN 1
    ELSE IF Len(q) = 2 \/ q[Len(q) - 2] = "ok" THEN 2
    ELSE 3

\* the step is a health check of channel c with the given outcomes
C19_Check(c, probe_ok, reconnect_ok) ==
    \E t \in ConnTemps : checkHealth(c, probe_ok, reconnect_ok, t)

\* C19: per channel the counter is the number of consecutive failed checks
\* and stays below MAX_FAILURES; a check whose probe or reconnect succeeds
\* sets it to 0 and restarts nothing, whatever it was; a check whose probe
\* and reconnect both fail restarts the device exactly when it is the
\* third failure in a row on that channel, and counts one more otherwise;
\* no other step restarts the device; a restart leaves the state of the
\* start.
C19_ConnectivityEscalation ==
    /\ [](\A c \in Channels :
            failures[c] = C19_Consecutive(probes[c]) /\ failures[c] < MAX_FAILURES)
    /\ [][\A c \in Channels :
            (C19_Check(c, TRUE, TRUE) \/ C19_Check(c, TRUE, FALSE)
               \/ C19_Check(c, FALSE, TRUE)) =>
                 /\ failures' = [failures EXCEPT ![c] = 0]
                 /\ trigger' = "healthy"]_vars
    /\ [][\A c \in Channels : C19_Check(c, FALSE, FALSE) =>
            /\ (trigger' = "restart") <=> (C19_Consecutive(probes[c]) = 2)
            /\ trigger' # "restart" =>
                  (trigger' = "degraded" /\ failures' = [failures EXCEPT ![c] = @ + 1])]_vars
    /\ [][trigger' = "restart" =>
            /\ \E c \in Channels : failures[c] = MAX_FAILURES - 1
            /\ thermo_state' = "off" /\ C6_Active' = 0 /\ delay' = 0
            /\ change_ignored' = 0 /\ target_temp' = 20
            /\ failures' = [c \in Channels |-> 0]]_vars

\* two failed checks of the message-bus session, then a successful one: the
\* counter is back at 0 and the device did not restart
C19_Witness ==
    /\ probes["mqtt"] = <<"failed", "failed", "ok">>
    /\ failures["mqtt"] = 0 /\ trigger = "healthy"

\* the third failed check in a row restarted the device while the air
\* conditioner ran: it comes up in mode off with everything off
C19_RestartWitness ==
    /\ trigger = "restart" /\ was_ignored = 0 /\ lock_ticks = -1
    /\ thermo_state = "off" /\ C6_Active = 0

\* C20: actuation does not depend on the network.  In a step taken while
\* publishing fails, an evaluation whose request finds the lock at 0 applies
\* it to the local state all the same: the appliance states are those of the
\* request and the lock is reset.
C20_ActuationWithoutNetwork ==
    [][(publish_raises /\ publish_raises' /\ request' # "none" /\ delay = 0) =>
          /\ <<heating_state', cooling_state', fan_state'>> = C4_Expected(request')
          /\ delay' = THERMO_MIN_CYCLE]_vars

\* the fixed order of the six requests
C22_Order == <<"heating on", "cooling on", "fan on",
               "heating off", "cooling off", "fan off">>

\* the condition of request r, taken by itself, for what the step's
\* evaluation is given: the appliance states before the step with the mode,
\* the manual command, the reading and the target of the evaluation
C22_Holds(r) ==
    IF thermo_state' = "man"
    THEN manual_command' = r /\ ~C12_EffectHolds(r)
    ELSE CASE r = "heating on" ->
                 /\ C8_Cold /\ heating_state = 0
                 /\ thermo_state' \in {"auto", "heat"}
           [] r = "cooling on" ->
                 /\ C8_Hot /\ cooling_state = 0
                 /\ thermo_state' \in {"auto", "cool"}
           [] r = "fan on" ->
                 C8_Hot /\ fan_state = 0 /\ thermo_state' = "fan"
           [] r = "heating off" ->
                 /\ actual_temp' >= target_temp' * 10
                       \/ thermo_state' \in {"off", "cool", "fan"}
                 /\ heating_state = 1
           [] r = "cooling off" ->
                 /\ actual_temp' <= target_temp' * 10
                       \/ thermo_state' \in {"off", "heat", "fan"}
                 /\ cooling_state = 1
           [] r = "fan off" ->
                 /\ actual_temp' <= target_temp' * 10
                       \/ thermo_state' \in {"off", "heat", "cool"}
                 /\ fan_state = 1

\* the first request of the fixed order whose condition holds, "none" when
\* none does
C22_First ==
    IF C22_Holds(C22_Order[1]) THEN C22_Order[1]
    ELSE IF C22_Holds(C22_Order[2]) THEN C22_Order[2]
    ELSE IF C22_Holds(C22_Order[3]) THEN C22_Order[3]
    ELSE IF C22_Holds(C22_Order[4]) THEN C22_Order[4]
    ELSE IF C22_Holds(C22_Order[5]) THEN C22_Order[5]
    ELSE IF C22_Holds(C22_Order[6]) THEN C22_Order[6]
    ELSE "none"

\* C22: every run of the decision logic passes at most one request to the
\* gate, the first of the order heat-on, cool-on, fan-on, heat-off, cool-off,
\* fan-off whose condition holds, so that an "on" wins over an "off"; a run
\* publishes at most one action notification and at most one relay "ON",
\* and nothing when no condition holds.
C22_OneRequestInOrder ==
    [][Evaluated' =>
          /\ request' = C22_First
          /\ \A i, j \in DOMAIN out' :
                (out'[i][1] = TOPIC_ACTION /\ out'[j][1] = TOPIC_ACTION) => i = j
          /\ \A i, j \in DOMAIN out' :
                (out'[i][2] = "ON" /\ out'[j][2] = "ON") => i = j
          /\ request' = "none" => (gate' = "none" /\ out' = <<>>)]_vars

\* mode heat entered while the air conditioner runs in a cold room: the
\* conditions of "heating on" and of "cooling off" both hold, and the request
\* is "heating on"
C22_Witness ==
    /\ Evaluated /\ thermo_state = "heat" /\ request = "heating on"
    /\ gate = "admitted" /\ Published(RELAY_COOL_TOPIC, "OFF")
    /\ heating_state = 1 /\ actual_temp = 214 /\ target_temp = 22

\* C24: change_ignored = 1 only while the lock counts (delay > 0); the tick
\* that ends the countdown and whose re-evaluation requests nothing leaves
\* change_ignored at 0.
C24_DeferredFlagIsPending ==
    /\ [](change_ignored = 1 => delay > 0)
    /\ [][(trigger' = "lock_expiry" /\ request' = "none") => change_ignored' = 0]_vars

\* the relays whose last command is "ON" once the first n messages of the
\* step have been published
C26_OnAfter(n) ==
    {k \in RelayTopics : Replay(latest, SubSeq(out', 1, n))[k] = "ON"}

\* C26: at every point of the sequence of relay messages at most one of the
\* three relays has "ON" as the command published last for it, and within
\* one step every relay "OFF" is published before the relay "ON".
C26_RelayCommandsNeverOverlap ==
    /\ [][\A n \in 0..Len(out') : Cardinality(C26_OnAfter(n)) <= 1]_vars
    /\ [][\A i, j \in DOMAIN out' :
            (out'[i][1] \in RelayTopics /\ out'[i][2] = "ON"
               /\ out'[j][1] \in RelayTopics /\ out'[j][2] = "OFF") => j < i]_vars

\* the action notification that goes with the appliance states
C27_Action ==
    IF heating_state = 1 THEN "heating"
    ELSE IF cooling_state = 1 THEN "cooling"
    ELSE IF fan_state = 1 THEN "fan"
    ELSE "idle"

\* C27: after the start and after every step, the action published last is
\* "heating" iff heating_state = 1, "cooling" iff cooling_state = 1, "fan"
\* iff fan_state = 1 and "idle" iff all three are 0, and the payloads
\* published last for the heat and the cool relay are "ON" exactly when the
\* state of the appliance is 1.
C27_PublishedMatchesState ==
    /\ latest[TOPIC_ACTION] \in {"heating", "cooling", "fan", "idle"}
    /\ (latest[TOPIC_ACTION] = "heating") <=> (heating_state = 1)
    /\ (latest[TOPIC_ACTION] = "cooling") <=> (cooling_state = 1)
    /\ (latest[TOPIC_ACTION] = "fan") <=> (fan_state = 1)
    /\ (latest[TOPIC_ACTION] = "idle") <=> (C6_Active = 0)
    /\ latest[RELAY_HEAT_TOPIC] = (IF heating_state = 1 THEN "ON" ELSE "OFF")
    /\ latest[RELAY_COOL_TOPIC] = (IF cooling_state = 1 THEN "ON" ELSE "OFF")

\* the air conditioner replaced the heater: the step published "cooling" and
\* the heat relay's "OFF", and the last payloads are those
C27_Witness ==
    /\ gate = "admitted" /\ request = "cooling on" /\ cooling_state = 1
    /\ Published(RELAY_HEAT_TOPIC, "OFF")
    /\ latest[TOPIC_ACTION] = "cooling"
    /\ latest[RELAY_HEAT_TOPIC] = "OFF" /\ latest[RELAY_COOL_TOPIC] = "ON"

\* the heater was switched off and nothing else runs: the step published
\* "idle", the last action
C27_IdleWitness ==
    /\ gate = "admitted" /\ request = "heating off" /\ C6_Active = 0
    /\ latest[TOPIC_ACTION] = "idle" /\ latest[RELAY_HEAT_TOPIC] = "OFF"

\* C25: once the pending manual command has been admitted, a step that is not
\* a new manual command and ends in mode man flips no appliance; so the step
\* of the touch button that re-enters mode man flips none.
C25_ManualCommandActsOnce ==
    [][(manual_acted = "yes" /\ trigger' # "switch" /\ thermo_state' = "man")
          => ~Flip]_vars

\* C28: whatever value of THERMO_MIN_CYCLE the program runs with, 0
\* included, the lock satisfies 0 <= delay <= THERMO_MIN_CYCLE in every
\* reachable state and the delayed_start timer is stopped whenever delay is 0.
C28_CycleLockRange ==
    /\ 0 <= delay /\ delay <= min_cycle
    /\ delay = 0 => ~delayed_start

\* C23: however the firings of the main_loop timer interleave with the main
\* loop, ticks never exceeds THERMO_UPDATE_FREQUENCY, the step that follows
\* ticks = THERMO_UPDATE_FREQUENCY on the counter is the periodic evaluation
\* with ticks back at 0, and the periodic evaluation happens again and again.
C23_PeriodicRecurs ==
    /\ [](ticks <= THERMO_UPDATE_FREQUENCY)
    /\ [][(ticks = THERMO_UPDATE_FREQUENCY /\ ticks' # ticks) =>
             (trigger' = "periodic" /\ ticks' = 0)]_vars
    /\ []<>(trigger = "periodic")

\* the step is one of the input callbacks: the touch button or a remote
\* mode, appliance or master-off command
C21_Callback == trigger' \in {"command", "switch", "master_off"}

\* C21: an input callback leaves the mode, the manual command and the
\* appliance states as they are (it only queues a command for the main
\* loop), and while the main loop is inside its evaluation no callback and
\* no lock timer runs an evaluation of its own: the next evaluation step is
\* the main loop's.
C21_SingleWriter ==
    /\ [][C21_Callback =>
            /\ thermo_state' = thermo_state
            /\ manual_command' = manual_command
            /\ ~Flip]_vars
    /\ [][(main_pc # "idle" /\ Evaluated') => trigger' = "periodic"]_vars

\* what C21 is to exclude: the main loop chose a request in one mode and
\* carries it out after a callback has switched the mode to off, so that an
\* appliance is switched on in mode off
C21_StaleRequestCarriedOut ==
    /\ trigger = "periodic" /\ gate = "admitted" /\ thermo_state = "off"
    /\ request \in {"heating on", "cooling on", "fan on"} /\ C6_Active = 1

====
